---- MODULE Spec2Model ----
(***************************************************************************)
(* Model of the search-dedupe-import pipeline of poc-search-import.        *)
(*                                                                         *)
(* The repository holds several prototype variants of importZoteroItem.    *)
(* One behaviour of this model runs one variant, chosen in Init:           *)
(*   "auto"    unnamed/part_001 100-163  no lock, title-only check         *)
(*   "console" src/index.ts 165-251      no lock, property check with      *)
(*                                       title fallback                    *)
(*   "react"   src/index.js 60-119       no lock, property check           *)
(*   "locked"  src/SearchUI.js 215-308   importingItems lock               *)
(*   "linking" unnamed/part_001 320-394  lock and insertLinkToPage         *)
(*                                                                         *)
(* JavaScript runs each invocation to its next await without interruption, *)
(* so one action is one such synchronous segment: the resumption after an  *)
(* awaited host call up to the next host request or the return.            *)
(***************************************************************************)
EXTENDS Integers, Sequences, FiniteSets, TLC

\* number of importZoteroItem invocations in one behaviour
MaxInv == 2

Invs == 1..MaxInv

\* the record keys (item.key) of the search results: two distinct records
Keys == {1, 2}

Variants == {"auto", "console", "react", "locked", "linking"}

\* variant         the importZoteroItem implementation that is running
\* importingItems  the lock set (const importingItems = new Set())
\* pages           the number of pages of the graph that createPage made for
\*                 record k; a record may have been imported in an earlier
\*                 session
\* inv             the importZoteroItem invocations: position (pc), item.key,
\*                 host requests made (calls), notices shown, the result of
\*                 checkIfInGraph (exists), whether DB.q rejected (qfailed),
\*                 whether the lock was taken (acquired), the invocation for
\*                 the same key that was in flight at the call (during),
\*                 whether a successful import of the key had returned before
\*                 the call (afterSuccess), whether createPage gave a page,
\*                 how insertLinkToPage ended (link), the origin of the caught
\*                 error, and the outcome
VARIABLES variant, importingItems, pages, inv

\* front                 the front end that drives the searches: "console"
\*                       (index.ts, runSearchAndImport and importByNumber),
\*                       "ui" (SearchUI.tsx), "auto" (the auto-import build of
\*                       part_001) or "none"
\* srch                  the search invocations (runSearchAndImport or
\*                       handleSearch): position, kind of query, fetch
\*                       requests, notices shown, the items of the response,
\*                       the state of each existence check, the order in which
\*                       the checks completed, itemsWithStatus (entries), and
\*                       in the auto-import build the items handed to
\*                       importZoteroItem and the invocation that imports
\* currentSearchResults  let currentSearchResults of index.ts
\* results, uiError      the React states results and error of SearchUI
\* hi                    the handleImport or importByNumber calls, one per
\*                       import invocation: position, item.key, the item
\*                       number, the results captured by the closure (read
\*                       by importByNumber), the state of each re-check
VARIABLES front, srch, currentSearchResults, results, uiError, hi

\* call                  one call of a pure helper of index.ts (extractYear,
\*                       the authors string, htmlToMarkdown): the function, its
\*                       argument and the value it returned
VARIABLES call

\* importing             the React state importing of the SearchUI that tracks
\*                       the item being imported (SearchUI.js 20-121, shipped
\*                       with the variants that hold the lock): an item key,
\*                       or 0 for null
VARIABLES importing

svars == <<front, srch, currentSearchResults, results, uiError, hi, importing>>

vars_import == <<variant, call, importingItems, pages, inv>>

vars == <<variant, call, importingItems, pages, inv, svars>>

\* number of search invocations in one behaviour
MaxSearch == 2

Searches == 1..MaxSearch

\* the imports a session of a search front end starts
MaxClick == 1

Clicks == 1..MaxClick

\* the lists the store answers a query with
Responses == {<<>>, <<2>>, <<1, 2>>}

\* a search that has not been called yet
IdleSearch ==
    [pc |-> "idle", query |-> "none", fetches |-> 0, notices |-> <<>>,
     items |-> <<>>, flags |-> <<>>, order |-> <<>>, entries |-> <<>>,
     outcome |-> "none", imported |-> <<>>, importer |-> 0]

\* a handleImport that has not been called yet
IdleHandle ==
    [pc |-> "idle", key |-> 0, number |-> 0, captured |-> <<>>, flags |-> <<>>,
     rechecks |-> 0]

\* no search has run: nothing is stored or displayed
NoSearch ==
    /\ srch = [s \in Searches |-> IdleSearch]
    /\ currentSearchResults = <<>>
    /\ results = <<>>
    /\ uiError = "none"
    /\ hi = [p \in Invs |-> IdleHandle]
    /\ importing = 0

\* no helper is being called
NoCall == [fn |-> "none"]

\* data.abstractNote of the record with key k is non-empty: record 1 carries
\* an abstract, record 2 does not
abstractNote(k) == k = 1

\* an invocation that has not been called yet
IdleInv ==
    [pc |-> "idle", key |-> 0, calls |-> <<>>, notices |-> <<>>,
     exists |-> "none", qfailed |-> FALSE, acquired |-> FALSE,
     during |-> 0, afterSuccess |-> FALSE, page |-> FALSE,
     link |-> "none", error |-> "none", outcome |-> "none"]

Init ==
    /\ variant \in Variants
    /\ call = NoCall
    /\ importingItems = {}
    /\ \E old \in SUBSET Keys : pages = [k \in Keys |-> IF k \in old THEN 1 ELSE 0]
    /\ inv = [p \in Invs |-> IdleInv]
    /\ front = "none"
    /\ NoSearch

----------------------------------------------------------------------------
\* The variants that declare the importingItems set and guard on it
UsesLock(v) == v \in {"locked", "linking"}

\* if (importingItems.has(item.key)) return
AlreadyImporting_off(k) == FALSE
AlreadyImporting_global(k) == k \in Keys /\ importingItems # {}
AlreadyImporting(k) == UsesLock(variant) /\ k \in importingItems

\* importingItems.add(item.key)
Acquire_none(k) == importingItems
Acquire(k) == IF UsesLock(variant) THEN importingItems \cup {k} ELSE importingItems

\* finally { importingItems.delete(item.key) }
Release_leak(k) == importingItems
Release(k) == IF UsesLock(variant) THEN importingItems \ {k} ELSE importingItems

\* the properties object importZoteroItem hands to createPage for the record
\* with key k: zoteroKey: item.key and zoteroLink built from item.key (the
\* other properties do not depend on the key)
PageProperties_renamed(k) ==
    [zoteroId |-> k, zoteroLink |-> <<"zotero://select/library/items/", k>>]
PageProperties(k) ==
    [zoteroKey |-> k, zoteroLink |-> <<"zotero://select/library/items/", k>>]

\* const query = `(property zoteroKey "${zoteroKey}")` with zoteroKey = item.key
PropertyQuery(k) == [property |-> "zoteroKey", value |-> k]

\* the host's answer to a property query for one page: the page carries the
\* property with the value asked for
Matches(props, query) ==
    /\ query.property \in DOMAIN props
    /\ props[query.property] = query.value

\* return !!(results && results.length > 0), the host returning the pages
\* whose properties match the query; pages[j] counts the pages created for
\* record j, each with the properties PageProperties(j)
QueryFound_never(k) == FALSE
QueryFound(k) ==
    \E j \in Keys : pages[j] > 0 /\ Matches(PageProperties(j), PropertyQuery(k))

\* if (alreadyExists) { showMsg(..., 'warning'); return }
SkipImport_never(exists) == FALSE
SkipImport(exists) == exists

\* the first host request of checkIfInGraph: the title-only variant asks
\* getPage, every other variant asks DB.q
FirstCheck(v) == IF v = "auto" THEN "title" ELSE "query"
FirstCall_title(v) == "getPage"
FirstCall(v) == IF v = "auto" THEN "getPage" ELSE "q"

\* the invocations for key k that have been called and have not returned
InFlight(k) == {p \in Invs : inv[p].key = k /\ inv[p].pc \notin {"idle", "done"}}

\* an invocation for key k that is in flight (0 when none)
Overlapped(k) == IF InFlight(k) = {} THEN 0 ELSE CHOOSE p \in InFlight(k) : TRUE

\* a successful import of key k has already returned
ImportedBefore(k) ==
    \E p \in Invs : inv[p].pc = "done" /\ inv[p].key = k /\ inv[p].outcome = "success"

\* the terminal notice of each exit path
SkipNotice_error == "error"
SkipNotice == "warning"
SuccessNotice == "success"
FailureNotice == "error"

\* showMsg(kind) followed by the return of importZoteroItem
Return_silent(r, kind, outcome) ==
    [r EXCEPT !.pc = "done", !.outcome = outcome]
Return(r, kind, outcome) ==
    [r EXCEPT !.pc = "done", !.notices = Append(@, kind), !.outcome = outcome]

----------------------------------------------------------------------------
\* importZoteroItem(item) up to its first await
StartImport_guardInTry(p, k) ==
    /\ inv[p].pc = "idle"
    /\ IF p = 1 THEN TRUE ELSE inv[p - 1].pc # "idle" \/ hi[p - 1].pc # "idle"
    /\ IF AlreadyImporting(k)
       THEN /\ inv' = [inv EXCEPT ![p] =
                 [@ EXCEPT !.pc = "done", !.key = k, !.outcome = "guarded",
                           !.during = Overlapped(k),
                           !.afterSuccess = ImportedBefore(k)]]
            /\ importingItems' = Release(k)
       ELSE /\ inv' = [inv EXCEPT ![p] =
                 [@ EXCEPT !.pc = FirstCheck(variant), !.key = k,
                           !.acquired = UsesLock(variant),
                           !.calls = <<FirstCall(variant)>>,
                           !.during = Overlapped(k),
                           !.afterSuccess = ImportedBefore(k)]]
            /\ importingItems' = Acquire(k)
    /\ UNCHANGED <<variant, call, pages>>
StartImport(p, k) ==
    /\ inv[p].pc = "idle"
    /\ IF p = 1 THEN TRUE ELSE inv[p - 1].pc # "idle" \/ hi[p - 1].pc # "idle"
    /\ IF AlreadyImporting(k)
       THEN /\ inv' = [inv EXCEPT ![p] =
                 [@ EXCEPT !.pc = "done", !.key = k, !.outcome = "guarded",
                           !.during = Overlapped(k),
                           !.afterSuccess = ImportedBefore(k)]]
            /\ UNCHANGED importingItems
       ELSE /\ inv' = [inv EXCEPT ![p] =
                 [@ EXCEPT !.pc = FirstCheck(variant), !.key = k,
                           !.acquired = UsesLock(variant),
                           !.calls = <<FirstCall(variant)>>,
                           !.during = Overlapped(k),
                           !.afterSuccess = ImportedBefore(k)]]
            /\ importingItems' = Acquire(k)
    /\ UNCHANGED <<variant, call, pages>>

\* importZoteroItem(item) called directly
importZoteroItem(p, k) == StartImport(p, k) /\ UNCHANGED svars

\* const page = await logseq.Editor.createPage(...) is requested after the
\* check returned false
RequestCreate(r) ==
    [r EXCEPT !.pc = "create",
              !.notices = Append(@, "info"),
              !.calls = Append(@, "createPage")]

\* checkIfInGraph returned `exists` to importZoteroItem
Checked(p, r, exists) ==
    LET c == [r EXCEPT !.exists = IF exists THEN "true" ELSE "false"] IN
    IF SkipImport(exists)
    THEN /\ inv' = [inv EXCEPT ![p] = Return(c, SkipNotice, "skipped")]
         /\ importingItems' = Release(inv[p].key)
    ELSE /\ inv' = [inv EXCEPT ![p] = RequestCreate(c)]
         /\ UNCHANGED importingItems

\* await logseq.DB.q(query) resolves
QueryReturns(p) ==
    /\ inv[p].pc = "query"
    /\ Checked(p, inv[p], QueryFound(inv[p].key))
    /\ UNCHANGED <<variant, call, pages, svars>>

\* await logseq.DB.q(query) rejects: index.ts falls back to getPage, the
\* other variants return false from the catch
QueryThrows(p) ==
    /\ inv[p].pc = "query"
    /\ IF variant = "console"
       THEN /\ inv' = [inv EXCEPT ![p] =
                 [@ EXCEPT !.pc = "title", !.qfailed = TRUE,
                           !.calls = Append(@, "getPage")]]
            /\ UNCHANGED importingItems
       ELSE Checked(p, [inv[p] EXCEPT !.qfailed = TRUE], FALSE)
    /\ UNCHANGED <<variant, call, pages, svars>>

\* await logseq.Editor.getPage(pageName) resolves with a page or with null
GetPageReturns(p, found) ==
    /\ inv[p].pc = "title"
    /\ Checked(p, inv[p], found)
    /\ UNCHANGED <<variant, call, pages, svars>>

\* await logseq.Editor.getPage(pageName) rejects: checkIfInGraph throws and
\* the catch of importZoteroItem reports the failure
GetPageThrows(p) ==
    /\ inv[p].pc = "title"
    /\ inv' = [inv EXCEPT ![p] =
          Return([@ EXCEPT !.exists = "threw", !.error = "check"],
                 FailureNotice, "failure")]
    /\ importingItems' = Release(inv[p].key)
    /\ UNCHANGED <<variant, call, pages, svars>>

\* showMsg('✓ Imported', 'success'), then insertLinkToPage in the linking
\* variant and the return in the others
Imported(r) ==
    IF variant = "linking"
    THEN [r EXCEPT !.pc = "link", !.notices = Append(@, SuccessNotice),
                   !.outcome = "success", !.calls = Append(@, "insertLink")]
    ELSE Return(r, SuccessNotice, "success")

\* if (data.abstractNote) { await logseq.Editor.insertBatchBlock(...) }
AppendsAbstract_always(k) == TRUE
AppendsAbstract(k) == abstractNote(k)

\* createPage resolves with a page handle
CreateReturnsPage(p) ==
    /\ inv[p].pc = "create"
    /\ pages' = [pages EXCEPT ![inv[p].key] = @ + 1]
    /\ IF AppendsAbstract(inv[p].key)
       THEN /\ inv' = [inv EXCEPT ![p] =
                 [@ EXCEPT !.pc = "append", !.page = TRUE,
                           !.calls = Append(@, "insertBatchBlock")]]
            /\ UNCHANGED importingItems
       ELSE /\ inv' = [inv EXCEPT ![p] = Imported([@ EXCEPT !.page = TRUE])]
            /\ importingItems' =
                 IF variant = "linking" THEN importingItems ELSE Release(inv[p].key)
    /\ UNCHANGED <<variant, call, svars>>

\* createPage resolves with null: throw new Error('Page creation returned
\* null'), and the catch reports the failure
CreateReturnsNull_unchecked(p) ==
    /\ inv[p].pc = "create"
    /\ inv' = [inv EXCEPT ![p] =
          IF abstractNote(inv[p].key)
          THEN Return([@ EXCEPT !.error = "null"], FailureNotice, "failure")
          ELSE Return([@ EXCEPT !.error = "null"], SuccessNotice, "success")]
    /\ importingItems' = Release(inv[p].key)
    /\ UNCHANGED <<variant, call, pages, svars>>
CreateReturnsNull(p) ==
    /\ inv[p].pc = "create"
    /\ inv' = [inv EXCEPT ![p] =
          Return([@ EXCEPT !.error = "null"], FailureNotice, "failure")]
    /\ importingItems' = Release(inv[p].key)
    /\ UNCHANGED <<variant, call, pages, svars>>

\* createPage rejects: the catch reports the failure
CreateThrows_uncaught(p) ==
    /\ inv[p].pc = "create"
    /\ inv' = [inv EXCEPT ![p] =
          [@ EXCEPT !.pc = "done", !.error = "create", !.outcome = "threw"]]
    /\ importingItems' = Release(inv[p].key)
    /\ UNCHANGED <<variant, call, pages, svars>>
CreateThrows(p) ==
    /\ inv[p].pc = "create"
    /\ inv' = [inv EXCEPT ![p] =
          Return([@ EXCEPT !.error = "create"], FailureNotice, "failure")]
    /\ importingItems' = Release(inv[p].key)
    /\ UNCHANGED <<variant, call, pages, svars>>

\* insertBatchBlock resolves
AppendReturns(p) ==
    /\ inv[p].pc = "append"
    /\ inv' = [inv EXCEPT ![p] = Imported(@)]
    /\ importingItems' =
         IF variant = "linking" THEN importingItems ELSE Release(inv[p].key)
    /\ UNCHANGED <<variant, call, pages, svars>>

\* insertBatchBlock rejects: the catch reports the failure
AppendThrows(p) ==
    /\ inv[p].pc = "append"
    /\ inv' = [inv EXCEPT ![p] =
          Return([@ EXCEPT !.error = "append"], FailureNotice, "failure")]
    /\ importingItems' = Release(inv[p].key)
    /\ UNCHANGED <<variant, call, pages, svars>>

\* insertLinkToPage with a current block: getEditingBlockContent resolves
\* and updateBlock is requested
LinkContentReturns(p) ==
    /\ inv[p].pc = "link"
    /\ inv' = [inv EXCEPT ![p] = [@ EXCEPT !.pc = "update"]]
    /\ UNCHANGED <<variant, call, importingItems, pages, svars>>

\* the end of insertLinkToPage after a rejected request: the catch logs the
\* error and shows nothing
LinkFailed_reported(r) ==
    [r EXCEPT !.link = "failed", !.notices = Append(@, FailureNotice),
              !.outcome = "failure"]
LinkFailed(r) == [r EXCEPT !.link = "failed"]

\* insertLinkToPage returns: its last request (appendBlockInPage without a
\* current block, updateBlock with one) resolved, or a request rejected and
\* its own catch swallowed the failure; importZoteroItem then leaves the try
\* and the finally releases the lock
LinkReturns_hang(p) == FALSE /\ UNCHANGED <<variant, call, importingItems, pages, inv, svars>>
LinkReturns(p) ==
    /\ inv[p].pc \in {"link", "update"}
    /\ \E failed \in BOOLEAN :
          inv' = [inv EXCEPT ![p] =
              [(IF failed THEN LinkFailed(@) ELSE [@ EXCEPT !.link = "inserted"])
                  EXCEPT !.pc = "done"]]
    /\ importingItems' = Release(inv[p].key)
    /\ UNCHANGED <<variant, call, pages, svars>>

Next ==
    \/ \E p \in Invs, k \in Keys : importZoteroItem(p, k)
    \/ \E p \in Invs : QueryReturns(p)
    \/ \E p \in Invs : QueryThrows(p)
    \/ \E p \in Invs, found \in BOOLEAN : GetPageReturns(p, found)
    \/ \E p \in Invs : GetPageThrows(p)
    \/ \E p \in Invs : CreateReturnsPage(p)
    \/ \E p \in Invs : CreateReturnsNull(p)
    \/ \E p \in Invs : CreateThrows(p)
    \/ \E p \in Invs : AppendReturns(p)
    \/ \E p \in Invs : AppendThrows(p)
    \/ \E p \in Invs : LinkContentReturns(p)
    \/ \E p \in Invs : LinkReturns(p)

Spec == Init /\ [][Next]_vars

\* the host answers every request of invocation p: the awaited promise of
\* DB.q, getPage, createPage, insertBatchBlock or the link insertion settles
HostResponds(p) ==
    \/ QueryReturns(p)
    \/ QueryThrows(p)
    \/ \E found \in BOOLEAN : GetPageReturns(p, found)
    \/ GetPageThrows(p)
    \/ CreateReturnsPage(p)
    \/ CreateReturnsNull(p)
    \/ CreateThrows(p)
    \/ AppendReturns(p)
    \/ AppendThrows(p)
    \/ LinkContentReturns(p)
    \/ LinkReturns(p)

\* Spec under the assumption that every host call eventually returns or throws
FairSpec == Spec /\ \A p \in Invs : WF_vars(HostResponds(p))

----------------------------------------------------------------------------
\* The search front ends: index.ts (console) and SearchUI.tsx (ui)

\* "true" / "false": the boolean a check resolved with
Flag(b) == IF b THEN "true" ELSE "false"

\* the catch of the React variants' checkIfInGraph: return false
CheckFailed_undefined == "none"
CheckFailed == "false"

\* if (!query || query.trim().length === 0) and if (!searchQuery.trim()):
\* the query is "absent" (undefined or ''), "blank" (whitespace) or "text"
ValidQuery_untrimmed(q) == q # "absent"
ValidQuery(q) == q = "text"

\* the notice of the catch of searchZoteroItems, by the message of the error
SearchErrorNotice_same(msg) == <<"error", "status">>
SearchErrorNotice(msg) ==
    IF msg = "Failed to fetch" THEN <<"error", "connect">> ELSE <<"error", "status">>

\* a search ends: its last notice and its outcome
EndSearch(r, notice, outcome) ==
    [r EXCEPT !.pc = "done", !.notices = Append(@, notice), !.outcome = outcome]

\* the searches are numbered in the order of their calls
NextSearch(s) ==
    /\ srch[s].pc = "idle"
    /\ IF s = 1 THEN TRUE ELSE srch[s - 1].pc # "idle"

\* runSearchAndImport(queryOverride) up to the fetch of searchZoteroItems
runSearchAndImport(s, q) ==
    /\ front = "console"
    /\ NextSearch(s)
    /\ srch' = [srch EXCEPT ![s] =
          IF q = "absent"
          THEN EndSearch([@ EXCEPT !.query = q], <<"warning", "usage">>, "invalid")
          ELSE IF ~ValidQuery(q)
          THEN EndSearch([@ EXCEPT !.query = q], <<"warning", "query">>, "invalid")
          ELSE [@ EXCEPT !.pc = "fetch", !.query = q, !.fetches = @ + 1,
                         !.notices = Append(@, <<"info", "searching">>)]]
    /\ UNCHANGED <<vars_import, front, currentSearchResults, results, uiError, hi, importing>>

\* fetch rejects (TypeError: Failed to fetch): the store cannot be reached
SearchFetchFails(s) ==
    /\ front \in {"console", "auto"}
    /\ srch[s].pc = "fetch"
    /\ srch' = [srch EXCEPT ![s] =
          EndSearch(@, SearchErrorNotice("Failed to fetch"), "connect")]
    /\ UNCHANGED <<vars_import, front, currentSearchResults, results, uiError, hi, importing>>

\* fetch resolves with a response that is not ok: throw new Error('Zotero API
\* error: ' + status)
SearchFetchNotOk(s) ==
    /\ front \in {"console", "auto"}
    /\ srch[s].pc = "fetch"
    /\ srch' = [srch EXCEPT ![s] =
          EndSearch(@, SearchErrorNotice("Zotero API error"), "status")]
    /\ UNCHANGED <<vars_import, front, currentSearchResults, results, uiError, hi, importing>>

\* fetch resolves ok and response.json() gives `items`: searchZoteroItems
\* returns them and displaySearchResults stores them and starts the first check
SearchFetchReturns(s, items) ==
    /\ front \in {"console", "auto"}
    /\ srch[s].pc = "fetch"
    /\ IF items = <<>>
       THEN /\ srch' = [srch EXCEPT ![s] =
                 EndSearch(@, <<"warning", "noresults">>, "noresults")]
            /\ UNCHANGED currentSearchResults
       ELSE /\ srch' = [srch EXCEPT ![s] =
                 [@ EXCEPT !.pc = "checking", !.items = items,
                           !.notices = @ \o <<<<"success", "found">>,
                                              <<"info", "checking">>>>]]
            /\ currentSearchResults' = items
    /\ UNCHANGED <<vars_import, front, results, uiError, hi, importing>>

\* itemsWithStatus.push({ item, inGraph }), and after the last item the
\* summary notice of displaySearchResults
Pushed(r, flag) ==
    LET e == Append(r.entries, [key |-> r.items[Len(r.entries) + 1], inGraph |-> flag])
        new == \E i \in DOMAIN e : e[i].inGraph # "true" IN
    IF Len(e) < Len(r.items)
    THEN [r EXCEPT !.pc = "checking", !.entries = e]
    ELSE EndSearch([r EXCEPT !.entries = e],
                   IF new THEN <<"success", "summary">> ELSE <<"warning", "alldup">>,
                   "ok")

\* the DB.q of the current item's checkIfInGraph resolves
DisplayCheckReturns(s) ==
    /\ front = "console"
    /\ srch[s].pc = "checking"
    /\ srch' = [srch EXCEPT ![s] =
          Pushed(@, Flag(QueryFound(@.items[Len(@.entries) + 1])))]
    /\ UNCHANGED <<vars_import, front, currentSearchResults, results, uiError, hi, importing>>

\* the DB.q of the current item's checkIfInGraph rejects: the title fallback
DisplayCheckThrows(s) ==
    /\ front = "console"
    /\ srch[s].pc = "checking"
    /\ srch' = [srch EXCEPT ![s] = [@ EXCEPT !.pc = "title"]]
    /\ UNCHANGED <<vars_import, front, currentSearchResults, results, uiError, hi, importing>>

\* the getPage of the fallback resolves with a page or with null
DisplayTitleReturns(s, found) ==
    /\ front = "console"
    /\ srch[s].pc = "title"
    /\ srch' = [srch EXCEPT ![s] = Pushed(@, Flag(found))]
    /\ UNCHANGED <<vars_import, front, currentSearchResults, results, uiError, hi, importing>>

\* the getPage of the fallback rejects: checkIfInGraph and displaySearchResults
\* reject, and the catch of runSearchAndImport shows the error
DisplayTitleThrows(s) ==
    /\ front = "console"
    /\ srch[s].pc = "title"
    /\ srch' = [srch EXCEPT ![s] = EndSearch(@, <<"error", "poc">>, "checkfailed")]
    /\ UNCHANGED <<vars_import, front, currentSearchResults, results, uiError, hi, importing>>

\* const index = itemNumber - 1
ItemIndex_zeroBased(n) == n
ItemIndex(n) == n - 1

\* importByNumber(itemNumber): the import of the N-th stored result, or
\* nothing when there is no such result; hi[p] keeps the number of the call
\* and the results stored when it was made
importByNumber(p, n) ==
    /\ front = "console"
    /\ hi[p].pc = "idle"
    /\ inv[p].pc = "idle"
    /\ IF p = 1 THEN TRUE ELSE inv[p - 1].pc # "idle" \/ hi[p - 1].pc # "idle"
    /\ IF \/ Len(currentSearchResults) = 0
          \/ ItemIndex(n) < 0
          \/ ItemIndex(n) >= Len(currentSearchResults)
       THEN /\ hi' = [hi EXCEPT ![p] =
                 [@ EXCEPT !.pc = "rejected", !.number = n,
                           !.captured = currentSearchResults]]
            /\ UNCHANGED vars_import
       ELSE /\ StartImport(p, currentSearchResults[ItemIndex(n) + 1])
            /\ hi' = [hi EXCEPT ![p] =
                 [@ EXCEPT !.pc = "called", !.number = n,
                           !.key = currentSearchResults[ItemIndex(n) + 1],
                           !.captured = currentSearchResults]]
    /\ UNCHANGED <<front, srch, currentSearchResults, results, uiError, importing>>

----------------------------------------------------------------------------
\* handleSearch up to its fetch
handleSearch(s, q) ==
    /\ front = "ui"
    /\ NextSearch(s)
    /\ q # "absent"
    /\ IF ~ValidQuery(q)
       THEN /\ srch' = [srch EXCEPT ![s] =
                 [@ EXCEPT !.pc = "done", !.query = q, !.outcome = "invalid"]]
            /\ uiError' = "empty"
       ELSE /\ srch' = [srch EXCEPT ![s] =
                 [@ EXCEPT !.pc = "fetch", !.query = q, !.fetches = @ + 1]]
            /\ uiError' = "none"
    /\ UNCHANGED <<vars_import, front, currentSearchResults, results, hi, importing>>

\* fetch rejects: setError(err.message)
UIFetchFails(s) ==
    /\ front = "ui"
    /\ srch[s].pc = "fetch"
    /\ srch' = [srch EXCEPT ![s] = [@ EXCEPT !.pc = "done", !.outcome = "connect"]]
    /\ uiError' = "connect"
    /\ UNCHANGED <<vars_import, front, currentSearchResults, results, hi, importing>>

\* the response is not ok: throw new Error('Zotero API error: ' + status)
UIFetchNotOk(s) ==
    /\ front = "ui"
    /\ srch[s].pc = "fetch"
    /\ srch' = [srch EXCEPT ![s] = [@ EXCEPT !.pc = "done", !.outcome = "status"]]
    /\ uiError' = "status"
    /\ UNCHANGED <<vars_import, front, currentSearchResults, results, hi, importing>>

\* the response is ok and response.json() gives `items`: either no results,
\* or Promise.all(items.map(checkIfInGraph)) starts every check
UIFetchReturns(s, items) ==
    /\ front = "ui"
    /\ srch[s].pc = "fetch"
    /\ IF items = <<>>
       THEN /\ srch' = [srch EXCEPT ![s] =
                 [@ EXCEPT !.pc = "done", !.outcome = "noresults"]]
            /\ results' = <<>>
            /\ uiError' = "noresults"
       ELSE /\ srch' = [srch EXCEPT ![s] =
                 [@ EXCEPT !.pc = "checking", !.items = items,
                           !.flags = [i \in DOMAIN items |-> "pending"]]]
            /\ UNCHANGED <<results, uiError>>
    /\ UNCHANGED <<vars_import, front, currentSearchResults, hi, importing>>

\* the value of Promise.all: one entry per item, in the order of the items
Collect_byCompletion(items, flags, order) ==
    [j \in DOMAIN order |-> [key |-> items[order[j]], inGraph |-> flags[order[j]]]]
Collect(items, flags, order) ==
    [i \in DOMAIN items |-> [key |-> items[i], inGraph |-> flags[i]]]

\* the check of item i resolved with `flag`; after the last one
\* setResults(resultsWithStatus)
UIChecked(s, i, flag) ==
    LET r == [srch[s] EXCEPT !.flags[i] = flag, !.order = Append(@, i)] IN
    IF \E j \in DOMAIN r.flags : r.flags[j] = "pending"
    THEN /\ srch' = [srch EXCEPT ![s] = r]
         /\ UNCHANGED results
    ELSE /\ srch' = [srch EXCEPT ![s] =
              [r EXCEPT !.pc = "done", !.outcome = "ok",
                        !.entries = Collect(r.items, r.flags, r.order)]]
         /\ results' = Collect(r.items, r.flags, r.order)

\* the DB.q of the check of item i resolves
UICheckReturns(s, i) ==
    /\ front = "ui"
    /\ srch[s].pc = "checking"
    /\ i \in DOMAIN srch[s].flags
    /\ srch[s].flags[i] = "pending"
    /\ UIChecked(s, i, Flag(QueryFound(srch[s].items[i])))
    /\ UNCHANGED <<vars_import, front, currentSearchResults, uiError, hi, importing>>

\* the DB.q of the check of item i rejects: checkIfInGraph returns false
UICheckThrows(s, i) ==
    /\ front = "ui"
    /\ srch[s].pc = "checking"
    /\ i \in DOMAIN srch[s].flags
    /\ srch[s].flags[i] = "pending"
    /\ UIChecked(s, i, CheckFailed)
    /\ UNCHANGED <<vars_import, front, currentSearchResults, uiError, hi, importing>>

\* the SearchUI that keeps the importing state is the one of the builds
\* whose importZoteroItem holds the lock (SearchUI.js, part_001)
TracksImporting == UsesLock(variant)

\* onClick of the i-th displayed entry: if (!inGraph) handleImport(item), up
\* to the first await of onImport(item); the SearchUI that tracks the
\* importing item ignores the click on that item (!isImporting, and the
\* guard importing === item.key) and calls setImporting(item.key)
handleImport(p, i) ==
    /\ front = "ui"
    /\ i \in DOMAIN results
    /\ results[i].inGraph # "true"
    /\ TracksImporting => importing # results[i].key
    /\ StartImport(p, results[i].key)
    /\ hi' = [hi EXCEPT ![p] =
          [@ EXCEPT !.pc = "import", !.key = results[i].key, !.captured = results]]
    /\ importing' = IF TracksImporting THEN results[i].key ELSE importing
    /\ UNCHANGED <<front, srch, currentSearchResults, results, uiError>>

\* newResults: the captured entries with the flags of the refresh
NewResults(h) ==
    [j \in DOMAIN h.captured |-> [key |-> h.captured[j].key, inGraph |-> h.flags[j]]]

\* the refresh of handleImport goes on, or ends with setResults(newResults)
\* and, where the importing item is tracked, with the setImporting(null) of
\* the finally
Refreshed(p, h) ==
    IF \E j \in DOMAIN h.flags : h.flags[j] = "pending"
    THEN /\ hi' = [hi EXCEPT ![p] = [h EXCEPT !.pc = "recheck"]]
         /\ UNCHANGED <<results, importing>>
    ELSE /\ hi' = [hi EXCEPT ![p] = [h EXCEPT !.pc = "done"]]
         /\ results' = NewResults(h)
         /\ importing' = IF TracksImporting THEN 0 ELSE importing

\* await onImport(item) resolves: results.map starts the refresh, true for the
\* imported item and a checkIfInGraph for every other captured entry
HandleImportResumes(p) ==
    /\ front = "ui"
    /\ hi[p].pc = "import"
    /\ inv[p].pc = "done"
    /\ Refreshed(p, [hi[p] EXCEPT !.flags =
          [j \in DOMAIN hi[p].captured |->
              IF hi[p].captured[j].key = hi[p].key THEN "true" ELSE "pending"]])
    /\ UNCHANGED <<vars_import, front, srch, currentSearchResults, uiError>>

\* the DB.q of the re-check of captured entry j resolves
RecheckReturns(p, j) ==
    /\ front = "ui"
    /\ hi[p].pc = "recheck"
    /\ j \in DOMAIN hi[p].flags
    /\ hi[p].flags[j] = "pending"
    /\ Refreshed(p, [hi[p] EXCEPT !.flags[j] = Flag(QueryFound(hi[p].captured[j].key)),
                                   !.rechecks = @ + 1])
    /\ UNCHANGED <<vars_import, front, srch, currentSearchResults, uiError>>

\* the DB.q of the re-check of captured entry j rejects
RecheckThrows(p, j) ==
    /\ front = "ui"
    /\ hi[p].pc = "recheck"
    /\ j \in DOMAIN hi[p].flags
    /\ hi[p].flags[j] = "pending"
    /\ Refreshed(p, [hi[p] EXCEPT !.flags[j] = CheckFailed, !.rechecks = @ + 1])
    /\ UNCHANGED <<vars_import, front, srch, currentSearchResults, uiError>>

\* a session of one front end: the console runs importZoteroItem of index.ts,
\* SearchUI.tsx is given the one of index.js
SearchInit ==
    /\ front \in {"console", "ui"}
    /\ variant = IF front = "console" THEN "console" ELSE "react"
    /\ call = NoCall
    /\ importingItems = {}
    /\ \E old \in SUBSET Keys : pages = [k \in Keys |-> IF k \in old THEN 1 ELSE 0]
    /\ inv = [p \in Invs |-> IdleInv]
    /\ NoSearch

SearchNext ==
    \/ \E s \in Searches, q \in {"absent", "blank", "text"} : runSearchAndImport(s, q)
    \/ \E s \in Searches : SearchFetchFails(s)
    \/ \E s \in Searches : SearchFetchNotOk(s)
    \/ \E s \in Searches, items \in Responses : SearchFetchReturns(s, items)
    \/ \E s \in Searches : DisplayCheckReturns(s)
    \/ \E s \in Searches : DisplayCheckThrows(s)
    \/ \E s \in Searches, found \in BOOLEAN : DisplayTitleReturns(s, found)
    \/ \E s \in Searches : DisplayTitleThrows(s)
    \/ \E s \in Searches, q \in {"blank", "text"} : handleSearch(s, q)
    \/ \E s \in Searches : UIFetchFails(s)
    \/ \E s \in Searches : UIFetchNotOk(s)
    \/ \E s \in Searches, items \in Responses : UIFetchReturns(s, items)
    \/ \E s \in Searches, i \in 1..2 : UICheckReturns(s, i)
    \/ \E s \in Searches, i \in 1..2 : UICheckThrows(s, i)

\* the searches of a session, no import started
SearchSpec == SearchInit /\ [][SearchNext]_vars

\* a session with the imports it starts from the stored or displayed results
SessionNext ==
    \/ SearchNext
    \/ \E p \in Clicks, n \in 0..3 : importByNumber(p, n)
    \/ \E p \in Clicks, i \in 1..2 : handleImport(p, i)
    \/ \E p \in Clicks : HandleImportResumes(p)
    \/ \E p \in Clicks, j \in 1..2 : RecheckReturns(p, j)
    \/ \E p \in Clicks, j \in 1..2 : RecheckThrows(p, j)
    \/ \E p \in Clicks : QueryReturns(p)
    \/ \E p \in Clicks : QueryThrows(p)
    \/ \E p \in Clicks, found \in BOOLEAN : GetPageReturns(p, found)
    \/ \E p \in Clicks : GetPageThrows(p)
    \/ \E p \in Clicks : CreateReturnsPage(p)
    \/ \E p \in Clicks : CreateReturnsNull(p)
    \/ \E p \in Clicks : CreateThrows(p)
    \/ \E p \in Clicks : AppendReturns(p)
    \/ \E p \in Clicks : AppendThrows(p)

SessionSpec == SearchInit /\ [][SessionNext]_vars

----------------------------------------------------------------------------
\* The auto-import build (part_001:56-259): one search with the default term,
\* then the import of the first item that is not in the graph

\* runSearchAndImport() of the auto-import build up to the fetch of
\* searchZoteroItems(DEFAULT_SEARCH)
AutoRunSearchAndImport(s) ==
    /\ front = "auto"
    /\ NextSearch(s)
    /\ srch' = [srch EXCEPT ![s] =
          [@ EXCEPT !.pc = "fetch", !.query = "text", !.fetches = @ + 1,
                    !.notices = <<<<"info", "poc">>, <<"info", "searching">>>>]]
    /\ UNCHANGED <<vars_import, front, currentSearchResults, results, uiError, hi, importing>>

\* await importZoteroItem(item); return
AutoImported_continue(r) ==
    IF Len(r.entries) < Len(r.items)
    THEN [r EXCEPT !.pc = "checking"]
    ELSE [r EXCEPT !.pc = "done", !.outcome = "imported"]
AutoImported(r) == [r EXCEPT !.pc = "done", !.outcome = "imported"]

\* the getPage of the current item's checkIfInGraph resolves: the loop imports
\* the item when it is not in the graph, and goes on to the next item otherwise
AutoCheckReturns(s, found) ==
    LET r == srch[s]
        i == Len(r.entries) + 1
        e == Append(r.entries, [key |-> r.items[i], inGraph |-> Flag(found)]) IN
    /\ front = "auto"
    /\ r.pc = "checking"
    /\ IF ~found
       THEN \E p \in Clicks :
               /\ StartImport(p, r.items[i])
               /\ srch' = [srch EXCEPT ![s] =
                     [r EXCEPT !.pc = "importing", !.entries = e,
                               !.imported = Append(@, i), !.importer = p,
                               !.notices = Append(@, <<"info", "importing">>)]]
       ELSE /\ srch' = [srch EXCEPT ![s] =
                 IF i < Len(r.items)
                 THEN [r EXCEPT !.entries = e,
                                !.notices = Append(@, <<"info", "ingraph">>)]
                 ELSE EndSearch([r EXCEPT !.entries = e,
                                          !.notices = Append(@, <<"info", "ingraph">>)],
                                <<"success", "alldup">>, "alldup")]
            /\ UNCHANGED vars_import
    /\ UNCHANGED <<front, currentSearchResults, results, uiError, hi, importing>>

\* the getPage of the current item's checkIfInGraph rejects: the catch of
\* runSearchAndImport shows the error
AutoCheckThrows(s) ==
    /\ front = "auto"
    /\ srch[s].pc = "checking"
    /\ srch' = [srch EXCEPT ![s] = EndSearch(@, <<"error", "poc">>, "checkfailed")]
    /\ UNCHANGED <<vars_import, front, currentSearchResults, results, uiError, hi, importing>>

\* await importZoteroItem(item) resolves
AutoImportReturns(s) ==
    /\ front = "auto"
    /\ srch[s].pc = "importing"
    /\ inv[srch[s].importer].pc = "done"
    /\ srch' = [srch EXCEPT ![s] = AutoImported(@)]
    /\ UNCHANGED <<vars_import, front, currentSearchResults, results, uiError, hi, importing>>

AutoInit ==
    /\ front = "auto"
    /\ variant = "auto"
    /\ call = NoCall
    /\ importingItems = {}
    /\ \E old \in SUBSET Keys : pages = [k \in Keys |-> IF k \in old THEN 1 ELSE 0]
    /\ inv = [p \in Invs |-> IdleInv]
    /\ NoSearch

AutoNext ==
    \/ \E s \in Searches : AutoRunSearchAndImport(s)
    \/ \E s \in Searches : SearchFetchFails(s)
    \/ \E s \in Searches : SearchFetchNotOk(s)
    \/ \E s \in Searches, items \in Responses : SearchFetchReturns(s, items)
    \/ \E s \in Searches, found \in BOOLEAN : AutoCheckReturns(s, found)
    \/ \E s \in Searches : AutoCheckThrows(s)
    \/ \E s \in Searches : AutoImportReturns(s)
    \/ \E p \in Clicks, found \in BOOLEAN : GetPageReturns(p, found)
    \/ \E p \in Clicks : GetPageThrows(p)
    \/ \E p \in Clicks : CreateReturnsPage(p)
    \/ \E p \in Clicks : CreateReturnsNull(p)
    \/ \E p \in Clicks : CreateThrows(p)
    \/ \E p \in Clicks : AppendReturns(p)
    \/ \E p \in Clicks : AppendThrows(p)

AutoSpec == AutoInit /\ [][AutoNext]_vars

----------------------------------------------------------------------------
\* The console after an earlier search has stored its items (or none):
\* importByNumber calls and the imports they start

StoredInit ==
    /\ front = "console"
    /\ variant = "console"
    /\ call = NoCall
    /\ importingItems = {}
    /\ \E old \in SUBSET Keys : pages = [k \in Keys |-> IF k \in old THEN 1 ELSE 0]
    /\ inv = [p \in Invs |-> IdleInv]
    /\ srch = [s \in Searches |-> IdleSearch]
    /\ currentSearchResults \in Responses
    /\ results = <<>>
    /\ uiError = "none"
    /\ hi = [p \in Invs |-> IdleHandle]
    /\ importing = 0

StoredNext ==
    \/ \E p \in Invs, n \in 0..3 : importByNumber(p, n)
    \/ \E p \in Invs : QueryReturns(p)
    \/ \E p \in Invs : QueryThrows(p)
    \/ \E p \in Invs, found \in BOOLEAN : GetPageReturns(p, found)
    \/ \E p \in Invs : GetPageThrows(p)
    \/ \E p \in Invs : CreateReturnsPage(p)
    \/ \E p \in Invs : CreateReturnsNull(p)
    \/ \E p \in Invs : CreateThrows(p)
    \/ \E p \in Invs : AppendReturns(p)
    \/ \E p \in Invs : AppendThrows(p)

StoredSpec == StoredInit /\ [][StoredNext]_vars

----------------------------------------------------------------------------
\* The pure helpers of index.ts. A string is a sequence of characters.

\* the characters the dates are drawn from
DateChars == {"1", "9", "2", "0", "a", "-"}

\* the longest date string
MaxDate == 5

\* the strings over `chars` of length at most n
StringsOver(chars, n) == UNION {[1..m -> chars] : m \in 0..n}

\* \d of a regular expression
IsDigit(c) == c \in {"0", "1", "2", "3", "4", "5", "6", "7", "8", "9"}

\* \w of a regular expression: a letter, a digit or the underscore (the letters
\* are those of the alphabets in use)
IsWord(c) == IsDigit(c) \/ c \in {"a", "b", "i", "p", "u", "x", "_"}

\* \b between the characters i - 1 and i of s: exactly one of them is a word
\* character (beyond either end of the string there is none)
WordBoundary(s, i) ==
    (i > 1 /\ IsWord(s[i - 1])) # (i <= Len(s) /\ IsWord(s[i]))

\* the value of one decimal digit
DigitValue(c) ==
    CASE c = "0" -> 0 [] c = "1" -> 1 [] c = "2" -> 2 [] c = "3" -> 3 [] c = "4" -> 4
      [] c = "5" -> 5 [] c = "6" -> 6 [] c = "7" -> 7 [] c = "8" -> 8 [] c = "9" -> 9

\* parseInt of a string of four digits
parseInt(d) ==
    1000 * DigitValue(d[1]) + 100 * DigitValue(d[2]) + 10 * DigitValue(d[3])
        + DigitValue(d[4])

\* (19\d{2}|20\d{2}) matches the four characters of s from position i
YearAt(s, i) ==
    /\ i + 3 <= Len(s)
    /\ \/ s[i] = "1" /\ s[i + 1] = "9"
       \/ s[i] = "2" /\ s[i + 1] = "0"
    /\ IsDigit(s[i + 2])
    /\ IsDigit(s[i + 3])

\* /\b(19\d{2}|20\d{2})\b/ matches s at position i
YearMatchAt_unbounded(s, i) == YearAt(s, i)
YearMatchAt(s, i) == WordBoundary(s, i) /\ YearAt(s, i) /\ WordBoundary(s, i + 4)

\* dateStr.match(...) tries the positions from left to right; the result of
\* extractYear from position i on
RECURSIVE YearFrom(_, _)
YearFrom(s, i) ==
    IF i > Len(s) THEN [kind |-> "null"]
    ELSE IF YearMatchAt(s, i)
         THEN [kind |-> "number", value |-> parseInt(SubSeq(s, i, i + 3))]
         ELSE YearFrom(s, i + 1)

\* extractYear(dateStr): null for an undefined or empty date
extractYear(dateStr) ==
    IF ~dateStr.defined \/ dateStr.chars = <<>>
    THEN [kind |-> "null"]
    ELSE YearFrom(dateStr.chars, 1)

\* the dates: undefined, or a string
Dates ==
    {[defined |-> FALSE, chars |-> <<>>]}
        \cup {[defined |-> TRUE, chars |-> s] : s \in StringsOver(DateChars, MaxDate)}

\* a call of extractYear with any date
YearInit ==
    /\ variant = "console"
    /\ importingItems = {}
    /\ pages = [k \in Keys |-> 0]
    /\ inv = [p \in Invs |-> IdleInv]
    /\ front = "none"
    /\ NoSearch
    /\ \E d \in Dates : call = [fn |-> "extractYear", arg |-> d, out |-> [kind |-> "pending"]]

\* the call returns
ExtractYearReturns ==
    /\ call.fn = "extractYear"
    /\ call.out.kind = "pending"
    /\ call' = [call EXCEPT !.out = extractYear(call.arg)]
    /\ UNCHANGED <<variant, importingItems, pages, inv, svars>>

YearNext == ExtractYearReturns

YearSpec == YearInit /\ [][YearNext]_vars

----------------------------------------------------------------------------
\* The authors string of importZoteroItem. A name is one token; a string is
\* the sequence of its tokens, "" is the empty sequence.

\* the most creators of a record
MaxCreators == 2

\* the creators: creatorType, and firstName, lastName and name, each of them
\* a token or absent ("")
Creators ==
    [creatorType : {"author", "editor"}, firstName : {"", "Ada"},
     lastName : {"", "Lovelace", "Turing"}, name : {"", "Bob"}]

\* data.creators: undefined, or a list of creators
CreatorLists ==
    {[defined |-> FALSE, list |-> <<>>]}
        \cup {[defined |-> TRUE, list |-> l] : l \in StringsOver(Creators, MaxCreators)}

\* parts.join(sep) for a list of strings
RECURSIVE join(_, _)
join(parts, sep) ==
    IF Len(parts) = 0 THEN <<>>
    ELSE IF Len(parts) = 1 THEN parts[1]
    ELSE parts[1] \o <<sep>> \o join(Tail(parts), sep)

\* formatCreator(creator)
formatCreator(creator) ==
    IF creator.name # "" THEN <<creator.name>>
    ELSE join((IF creator.firstName # "" THEN <<<<creator.firstName>>>> ELSE <<>>)
                  \o (IF creator.lastName # "" THEN <<<<creator.lastName>>>> ELSE <<>>),
              " ")

\* c => c.creatorType === 'author'
IsAuthor_any(c) == TRUE
IsAuthor(c) == c.creatorType = "author"

\* data.creators ? data.creators.filter(...).map(formatCreator).join(', ') : ''
authors(creators) ==
    IF ~creators.defined THEN <<>>
    ELSE LET filtered == SelectSeq(creators.list, IsAuthor) IN
         join([i \in DOMAIN filtered |-> formatCreator(filtered[i])], ", ")

\* a call that builds the authors string of any record
AuthorsInit ==
    /\ variant = "console"
    /\ importingItems = {}
    /\ pages = [k \in Keys |-> 0]
    /\ inv = [p \in Invs |-> IdleInv]
    /\ front = "none"
    /\ NoSearch
    /\ \E c \in CreatorLists :
          call = [fn |-> "authors", arg |-> c, out |-> [kind |-> "pending"]]

\* the string is built
AuthorsReturns ==
    /\ call.fn = "authors"
    /\ call.out.kind = "pending"
    /\ call' = [call EXCEPT !.out = [kind |-> "string", value |-> authors(call.arg)]]
    /\ UNCHANGED <<variant, importingItems, pages, inv, svars>>

AuthorsNext == AuthorsReturns

AuthorsSpec == AuthorsInit /\ [][AuthorsNext]_vars

----------------------------------------------------------------------------
\* htmlToMarkdown. A tag, a marker, a run of text, a blank or a line break is
\* one token; a string is the sequence of its tokens.

\* the most pieces an abstract is put together from
MaxPieces == 3

\* the pieces of the abstracts, each with its HTML text: text, blank, line
\* break, one well-formed pair of every replaced tag, a hyperlink, a tag
\* that is not replaced, <br>, <p>, and an opening and a closing tag alone
PieceHtml ==
    [text   |-> <<"x">>,
     blank  |-> <<" ">>,
     newline |-> <<"\n">>,
     i      |-> <<"<i>", "x", "</i>">>,
     em     |-> <<"<em>", "x", "</em>">>,
     b      |-> <<"<b>", "x", "</b>">>,
     strong |-> <<"<strong>", "x", "</strong>">>,
     sup    |-> <<"<sup>", "x", "</sup>">>,
     sub    |-> <<"<sub>", "x", "</sub>">>,
     a      |-> <<"<a href=\"", "u", "\">", "x", "</a>">>,
     u      |-> <<"<u>">>,
     br     |-> <<"<br>">>,
     p      |-> <<"<p>">>,
     open   |-> <<"<i>">>,
     close  |-> <<"</i>">>]

Pieces == DOMAIN PieceHtml

\* the concatenation of a list of strings
RECURSIVE Concat(_)
Concat(ss) == IF Len(ss) = 0 THEN <<>> ELSE ss[1] \o Concat(Tail(ss))

\* the HTML text of a list of pieces
Html(pieces) == Concat([n \in DOMAIN pieces |-> PieceHtml[pieces[n]]])

\* the position of the first `token` of s after position i with no line break
\* before it (. does not match a line break), or 0
RECURSIVE NextOnLine(_, _, _)
NextOnLine(s, i, token) ==
    IF i + 1 > Len(s) \/ s[i + 1] = "\n" THEN 0
    ELSE IF s[i + 1] = token THEN i + 1
    ELSE NextOnLine(s, i + 1, token)

\* s.replace(/<open>(.*?)<close>/g, 'mark$1mark') from position i on
RECURSIVE ReplacePair(_, _, _)
ReplacePair(s, i, rule) ==
    IF i > Len(s) THEN <<>>
    ELSE LET j == IF s[i] = rule.open THEN NextOnLine(s, i, rule.close) ELSE 0 IN
         IF j # 0
         THEN <<rule.mark>> \o SubSeq(s, i + 1, j - 1) \o <<rule.mark>>
                  \o ReplacePair(s, j + 1, rule)
         ELSE <<s[i]>> \o ReplacePair(s, i + 1, rule)

\* s.replace(/<a href="(.*?)">(.*?)<\/a>/g, '[$2]($1)') from position i on
RECURSIVE ReplaceLink(_, _)
ReplaceLink(s, i) ==
    IF i > Len(s) THEN <<>>
    ELSE LET j == IF s[i] = "<a href=\"" THEN NextOnLine(s, i, "\">") ELSE 0
             k == IF j # 0 THEN NextOnLine(s, j, "</a>") ELSE 0 IN
         IF k # 0
         THEN <<"[">> \o SubSeq(s, j + 1, k - 1) \o <<"](">> \o SubSeq(s, i + 1, j - 1)
                  \o <<")">> \o ReplaceLink(s, k + 1)
         ELSE <<s[i]>> \o ReplaceLink(s, i + 1)

\* s.replace(/<br\s*\/?>/g, '\n').replace(/<\/?p>/g, '\n')
ReplaceBreaks(s) ==
    [n \in DOMAIN s |-> IF s[n] \in {"<br>", "<br/>", "<br />", "<p>", "</p>"} THEN "\n" ELSE s[n]]

\* s.trim()
RECURSIVE trim(_)
trim(s) ==
    IF s = <<>> THEN <<>>
    ELSE IF s[1] \in {" ", "\n"} THEN trim(Tail(s))
    ELSE IF s[Len(s)] \in {" ", "\n"} THEN trim(SubSeq(s, 1, Len(s) - 1))
    ELSE s

\* the pair replacements of htmlToMarkdown, in the order of its replace calls
PairRules_noSub ==
    << [open |-> "<i>", close |-> "</i>", mark |-> "*"],
       [open |-> "<em>", close |-> "</em>", mark |-> "*"],
       [open |-> "<b>", close |-> "</b>", mark |-> "**"],
       [open |-> "<strong>", close |-> "</strong>", mark |-> "**"],
       [open |-> "<sup>", close |-> "</sup>", mark |-> "^"] >>
PairRules ==
    << [open |-> "<i>", close |-> "</i>", mark |-> "*"],
       [open |-> "<em>", close |-> "</em>", mark |-> "*"],
       [open |-> "<b>", close |-> "</b>", mark |-> "**"],
       [open |-> "<strong>", close |-> "</strong>", mark |-> "**"],
       [open |-> "<sup>", close |-> "</sup>", mark |-> "^"],
       [open |-> "<sub>", close |-> "</sub>", mark |-> "~"] >>

\* the first n pair replacements applied to s, one after the other
RECURSIVE ReplacePairs(_, _)
ReplacePairs(s, n) ==
    IF n = 0 THEN s ELSE ReplacePair(ReplacePairs(s, n - 1), 1, PairRules[n])

\* htmlToMarkdown(html)
htmlToMarkdown(html) ==
    IF html = <<>> THEN <<>>
    ELSE trim(ReplaceBreaks(ReplaceLink(ReplacePairs(html, Len(PairRules)), 1)))

\* a call of htmlToMarkdown with any abstract of at most MaxPieces pieces
MarkdownInit ==
    /\ variant = "console"
    /\ importingItems = {}
    /\ pages = [k \in Keys |-> 0]
    /\ inv = [p \in Invs |-> IdleInv]
    /\ front = "none"
    /\ NoSearch
    /\ \E ps \in StringsOver(Pieces, MaxPieces) :
          call = [fn |-> "htmlToMarkdown", pieces |-> ps, arg |-> Html(ps),
                  out |-> [kind |-> "pending"]]

\* the call returns
MarkdownReturns ==
    /\ call.fn = "htmlToMarkdown"
    /\ call.out.kind = "pending"
    /\ call' = [call EXCEPT !.out = [kind |-> "string", value |-> htmlToMarkdown(call.arg)]]
    /\ UNCHANGED <<variant, importingItems, pages, inv, svars>>

MarkdownNext == MarkdownReturns

MarkdownSpec == MarkdownInit /\ [][MarkdownNext]_vars

----------------------------------------------------------------------------
\* The SearchUI that tracks the importing item (SearchUI.js 20-121), with
\* the importZoteroItem that holds the lock

\* the entries a finished search displays for `items`: each flag is the
\* answer of the item's check, false when its DB.q rejected
Displayed(items) ==
    {e \in [DOMAIN items -> [key : Keys, inGraph : {"true", "false"}]] :
        \A i \in DOMAIN items :
            /\ e[i].key = items[i]
            /\ e[i].inGraph \in {Flag(QueryFound(items[i])), CheckFailed}}

\* a search has displayed its results and no import has been started
TrackingInit ==
    /\ front = "ui"
    /\ variant \in {"locked", "linking"}
    /\ call = NoCall
    /\ importingItems = {}
    /\ \E old \in SUBSET Keys : pages = [k \in Keys |-> IF k \in old THEN 1 ELSE 0]
    /\ inv = [p \in Invs |-> IdleInv]
    /\ srch = [s \in Searches |-> IdleSearch]
    /\ currentSearchResults = <<>>
    /\ \E items \in Responses \ {<<>>} : results \in Displayed(items)
    /\ uiError = "none"
    /\ hi = [p \in Invs |-> IdleHandle]
    /\ importing = 0

TrackingNext ==
    \/ \E p \in Invs, i \in 1..2 : handleImport(p, i)
    \/ \E p \in Invs : HandleImportResumes(p)
    \/ \E p \in Invs, j \in 1..2 : RecheckReturns(p, j)
    \/ \E p \in Invs, j \in 1..2 : RecheckThrows(p, j)
    \/ \E p \in Invs : QueryReturns(p)
    \/ \E p \in Invs : QueryThrows(p)
    \/ \E p \in Invs : CreateReturnsPage(p)
    \/ \E p \in Invs : CreateReturnsNull(p)
    \/ \E p \in Invs : CreateThrows(p)
    \/ \E p \in Invs : AppendReturns(p)
    \/ \E p \in Invs : AppendThrows(p)
    \/ \E p \in Invs : LinkContentReturns(p)
    \/ \E p \in Invs : LinkReturns(p)

\* the imports started from the displayed results of the tracking SearchUI
TrackingSpec == TrackingInit /\ [][TrackingNext]_vars

----------------------------------------------------------------------------
\* The page names of a record: createPageTitle and the title lookup of
\* checkIfInGraph

\* the characters of the titles: those of the tag ' #zot' and one other
TitleChars == {" ", "#", "z", "o", "t", "T"}

\* length of the longest title
MaxTitle == 5

\* the tag appended to the page title
ZotTag == <<" ", "#", "z", "o", "t">>

\* the items of a Zotero response: data.title is missing or a string, and
\* the Zotero API repeats the key of the item in data.key
Items ==
    {i \in [key : Keys,
            data : [key : Keys,
                    title : {[defined |-> FALSE, chars |-> <<>>]} \cup
                            [defined : {TRUE}, chars : StringsOver(TitleChars, MaxTitle)]]] :
        i.data.key = i.key}

\* `${key}` of a template literal
KeyText(k) == <<IF k = 1 THEN "1" ELSE "2">>

\* `Zotero Item ${key}`
Placeholder(k) == <<"Zotero Item ">> \o KeyText(k)

\* data.title || other: a missing and an empty title are falsy
TitleOr(title, other) == IF title.defined /\ title.chars # <<>> THEN title.chars ELSE other

\* createPageTitle(data): `${data.title || `Zotero Item ${data.key}`} #zot`
createPageTitle(data) == TitleOr(data.title, Placeholder(data.key)) \o ZotTag

\* the pageName of the title lookup: index.ts reads item.key, the title-only
\* build of part_001 reads item.data.key
pageName_tagged(build, item) == createPageTitle(item.data)
pageName(build, item) ==
    IF build = "console"
    THEN TitleOr(item.data.title, Placeholder(item.key))
    ELSE TitleOr(item.data.title, Placeholder(item.data.key))

\* pageTitle.replace(/ #zot$/, '')
RemoveZotTag(s) ==
    IF Len(s) >= Len(ZotTag) /\ SubSeq(s, Len(s) - Len(ZotTag) + 1, Len(s)) = ZotTag
    THEN SubSeq(s, 1, Len(s) - Len(ZotTag))
    ELSE s

\* the two names are about to be computed for one item, in the build with
\* the title fallback (index.ts) or in the title-only build (part_001)
TitleInit ==
    /\ variant = "console"
    /\ importingItems = {}
    /\ pages = [k \in Keys |-> 0]
    /\ inv = [p \in Invs |-> IdleInv]
    /\ front = "none"
    /\ NoSearch
    /\ \E b \in {"console", "auto"}, i \in Items :
          call = [fn |-> "pageName", build |-> b, item |-> i,
                  out |-> [kind |-> "pending"]]

\* checkIfInGraph has computed pageName and importZoteroItem pageTitle
PageNameReturns ==
    /\ call.fn = "pageName"
    /\ call.out.kind = "pending"
    /\ call' = [call EXCEPT !.out =
          [kind |-> "names", lookup |-> pageName(call.build, call.item),
           created |-> createPageTitle(call.item.data)]]
    /\ UNCHANGED <<variant, importingItems, pages, inv, svars>>

TitleNext == PageNameReturns

TitleSpec == TitleInit /\ [][TitleNext]_vars

----------------------------------------------------------------------------
\* Helpers of the properties

\* the invocations that hold the lock of key k: between importingItems.add
\* and importingItems.delete
Holding(k) == {p \in Invs : inv[p].acquired /\ inv[p].key = k /\ inv[p].pc # "done"}

\* the number of createPage requests of invocation p
Creates(p) == Cardinality({i \in DOMAIN inv[p].calls : inv[p].calls[i] = "createPage"})

\* the number of terminal notices (skip, success or failure) of invocation p
Terminals(p) ==
    Cardinality({i \in DOMAIN inv[p].notices :
                    inv[p].notices[i] \in {"warning", "success", "error"}})

\* invocation q was called while invocation h for the same key was in flight
CalledDuring(q, h) == h # q /\ inv[q].pc # "idle" /\ inv[q].during = h

\* invocation q was called, alone, after a successful import of its key
SecondInSequence(q) == inv[q].pc = "done" /\ inv[q].afterSuccess /\ inv[q].during = 0

----------------------------------------------------------------------------
\* C1: in the lock-guarded importZoteroItem, at most one invocation per record
\* key is between importingItems.add and importingItems.delete at any moment,
\* and the key of every such invocation is in importingItems.
C1_OneInFlightPerKey ==
    UsesLock(variant) =>
        \A k \in Keys :
            /\ Cardinality(Holding(k)) <= 1
            /\ Holding(k) # {} => k \in importingItems

\* a second call met the lock of a first call that is still in flight
C1_Witness ==
    /\ UsesLock(variant)
    /\ \E p, q \in Invs :
          /\ p \in Holding(inv[q].key)
          /\ inv[q].outcome = "guarded"
          /\ inv[p].calls # <<>>

\* C2 (as stated): when a second call for a key starts while a first call for
\* the key is in flight, exactly one createPage request is issued in total by
\* the two calls, and the second call makes no host request.
C2_ExactlyOneCreate ==
    UsesLock(variant) =>
        \A q, h \in Invs :
            CalledDuring(q, h) /\ inv[h].pc = "done" =>
                /\ inv[q].calls = <<>>
                /\ Creates(h) + Creates(q) = 1

\* C2 (amended): the second call makes no host request, the two calls issue at
\* most one createPage request in total, and exactly one once the first call's
\* existence check has returned false; none when it returned true.
C2_AtMostOneCreate ==
    UsesLock(variant) =>
        \A q, h \in Invs :
            CalledDuring(q, h) =>
                /\ inv[q].calls = <<>>
                /\ inv[q].pc = "done"
                /\ Creates(h) + Creates(q) <= 1
                /\ inv[h].exists = "false" => Creates(h) + Creates(q) = 1
                /\ inv[h].exists = "true" => Creates(h) + Creates(q) = 0

\* the first call has created its page and returned, the second was a no-op
C2_Witness ==
    /\ UsesLock(variant)
    /\ \E q, h \in Invs :
          /\ CalledDuring(q, h)
          /\ inv[h].pc = "done" /\ inv[h].outcome = "success"
          /\ Creates(h) = 1 /\ inv[q].calls = <<>>

\* C3: when an invocation that acquired the lock returns, with any outcome,
\* its record key is absent from importingItems.
C3_LockReleased ==
    [][\A p \in Invs :
          inv[p].acquired /\ inv[p].pc # "done" /\ inv'[p].pc = "done"
              => inv[p].key \notin importingItems']_vars

\* a lock-holding invocation has failed and the lock set is empty again
C3_Witness ==
    /\ UsesLock(variant)
    /\ importingItems = {}
    /\ \E p \in Invs :
          inv[p].acquired /\ inv[p].pc = "done" /\ inv[p].outcome = "failure"

C6_OverlapOneCreate ==
    variant \in {"console", "react"} =>
        \A q, h \in Invs : CalledDuring(q, h) => Creates(h) + Creates(q) <= 1

\* C7: every createPage request directly follows, among the host requests of
\* its invocation, the existence check of that invocation, and that check
\* returned false.
C7_CreateAfterCheck ==
    \A p \in Invs :
        \A i \in DOMAIN inv[p].calls :
            inv[p].calls[i] = "createPage" =>
                /\ i > 1
                /\ inv[p].calls[i - 1] \in {"q", "getPage"}
                /\ inv[p].exists = "false"

\* createPage has been requested after a property query that found nothing
C7_Witness ==
    \E p \in Invs :
        /\ inv[p].calls = <<"q", "createPage">>
        /\ inv[p].pc = "create"
        /\ ~inv[p].qfailed

\* C8: checkIfInGraph of index.ts never throws to its caller: after a failed
\* property query and a failed title lookup it returns false.
C8_CheckNeverThrows ==
    variant = "console" => \A p \in Invs : inv[p].exists # "threw"

\* C9: when createPage gave a page and insertBatchBlock then failed, the
\* success notice is shown, no error notice is shown, the import counts as
\* successful and the page is kept.
C9_AppendFailureIsSuccess ==
    \A p \in Invs :
        inv[p].error = "append" =>
            /\ \E i \in DOMAIN inv[p].notices : inv[p].notices[i] = "success"
            /\ \A i \in DOMAIN inv[p].notices : inv[p].notices[i] # "error"
            /\ inv[p].outcome = "success"
            /\ pages[inv[p].key] >= 1

\* C10: an invocation that passed the lock guard never shows more than one
\* terminal notice (skip, success or failure) and has shown exactly one when
\* it returns.
C10_OneTerminalNotice ==
    \A p \in Invs :
        /\ Terminals(p) <= 1
        /\ inv[p].pc = "done" /\ inv[p].outcome # "guarded" => Terminals(p) = 1

\* one invocation was skipped and another failed after its page was created
C10_Witness ==
    \E p, q \in Invs :
        /\ inv[p].pc = "done" /\ inv[p].outcome = "skipped"
        /\ inv[q].pc = "done" /\ inv[q].error = "append"
        /\ Terminals(p) = 1 /\ Terminals(q) = 1

\* C11: when createPage returns no page handle the import ends with the
\* failure notice, shows no success notice and requests no insertBatchBlock.
C11_NullPageFails ==
    \A p \in Invs :
        inv[p].error = "null" =>
            /\ inv[p].outcome = "failure"
            /\ inv[p].notices = <<"info", "error">>
            /\ \A i \in DOMAIN inv[p].calls : inv[p].calls[i] # "insertBatchBlock"
            /\ ~inv[p].page

\* createPage returned null for a record without an abstract and for one
\* with an abstract
C11_Witness ==
    \E p \in Invs :
        /\ inv[p].error = "null" /\ inv[p].pc = "done"
        /\ ~abstractNote(inv[p].key)
        /\ inv[p].calls[Len(inv[p].calls)] = "createPage"

\* C12: when the existence re-check of importZoteroItem returns true, the
\* invocation returns at once with the warning (not the error) notice as its
\* only notice, without a createPage request, and its key is not locked.
C12_ExistsSkips ==
    [][\A p \in Invs :
          inv[p].exists # "true" /\ inv'[p].exists = "true" =>
              /\ inv'[p].pc = "done" /\ inv'[p].outcome = "skipped"
              /\ inv'[p].notices = <<"warning">>
              /\ \A i \in DOMAIN inv'[p].calls : inv'[p].calls[i] # "createPage"
              /\ inv'[p].key \notin importingItems']_vars

\* a lock-holding invocation found its record in the graph and was skipped
C12_Witness ==
    \E p \in Invs :
        /\ inv[p].acquired /\ inv[p].exists = "true" /\ inv[p].pc = "done"
        /\ inv[p].notices = <<"warning">>
        /\ inv[p].key \notin importingItems

\* C13: provided every host call eventually returns or throws, every
\* invocation that acquired the lock eventually returns with a terminal
\* outcome and no longer holds the lock.
C13_LockedImportTerminates ==
    \A p \in Invs :
        inv[p].acquired ~>
            (/\ inv[p].pc = "done"
             /\ inv[p].outcome \in {"skipped", "success", "failure"}
             /\ p \notin Holding(inv[p].key))

\* an in-flight lock holder can always take a step of its own: it never waits
\* on another import
C13_NeverBlocked ==
    \A p \in Invs :
        inv[p].pc \notin {"idle", "done"} => ENABLED HostResponds(p)

\* a lock-holding invocation of the linking variant has run to its end
C13_Witness ==
    /\ variant = "linking"
    /\ \E p \in Invs :
          /\ inv[p].acquired /\ inv[p].pc = "done" /\ inv[p].outcome = "success"
          /\ inv[p].calls[Len(inv[p].calls)] = "insertLink"

\* C14: the lock is per record key: an invocation is turned away at the guard
\* only when an invocation for the same key is in flight, so an invocation for
\* another key passes the guard while a lock is held.
C14_LockIsPerKey ==
    UsesLock(variant) =>
        \A q \in Invs :
            /\ inv[q].outcome = "guarded" => inv[q].during # 0
            /\ inv[q].pc # "idle" /\ inv[q].during = 0
                   => inv[q].acquired /\ inv[q].outcome # "guarded"

\* an invocation for one key has requested createPage while an invocation for
\* the other key still holds its lock
C14_Witness ==
    /\ UsesLock(variant)
    /\ \E p, q \in Invs :
          /\ inv[p].key # inv[q].key
          /\ p \in Holding(inv[p].key)
          /\ q \in Holding(inv[q].key)
          /\ inv[q].pc = "create"
          /\ importingItems = {inv[p].key, inv[q].key}

----------------------------------------------------------------------------
\* Claims about the search front ends, checked under SearchSpec (C17 to C20)
\* and SessionSpec (C15, C16)

\* the outcomes of a search that returned no results or failed
EmptyOrFailed == {"noresults", "connect", "status"}

\* C15: after handleImport(item) completes, exactly one entry of the result set
\* is updated, the one for item.key: every other entry keeps its exists flag and
\* no existence check is re-run for the other entries.
C15_PatchOnlyImported ==
    \A p \in Invs :
        hi[p].pc \in {"recheck", "done"} =>
            /\ hi[p].rechecks = 0
            /\ \A j \in DOMAIN hi[p].flags :
                  hi[p].captured[j].key # hi[p].key
                      => hi[p].flags[j] = hi[p].captured[j].inGraph

\* C16: the result set is scoped to one search: when a search ends with no
\* results or with a failure, and no search started after it has stored
\* results, no record of an earlier search is still stored for importByNumber
\* or displayed for a click.
C16_PreviousResultsDiscarded ==
    [][\A s \in Searches :
          /\ srch[s].pc # "done"
          /\ srch'[s].pc = "done"
          /\ srch'[s].outcome \in EmptyOrFailed
          /\ \A t \in Searches : t > s => srch'[t].items = <<>>
          => currentSearchResults' = <<>> /\ results' = <<>>]_vars

\* C17: every entry of a result set has an exists flag that is true or false,
\* never absent, also when an existence check failed.
C17_FlagIsBoolean ==
    /\ \A s \in Searches : \A i \in DOMAIN srch[s].entries :
          srch[s].entries[i].inGraph \in {"true", "false"}
    /\ \A i \in DOMAIN results : results[i].inGraph \in {"true", "false"}
    /\ \A s \in Searches :
          srch[s].outcome = "ok"
              => srch[s].query = "text" /\ Len(srch[s].entries) = Len(srch[s].items)

\* a displayed entry says "not in the graph" for a record whose page was there
\* all along (no import has started): its existence check failed
C17_Witness ==
    /\ front = "ui"
    /\ \A p \in Invs : inv[p].pc = "idle"
    /\ \E i \in DOMAIN results :
          results[i].inGraph = "false" /\ pages[results[i].key] > 0

\* C18: populate keeps input order: when the checks of a search of SearchUI have
\* all completed, in whatever order, the i-th displayed entry pairs the i-th
\* record of the response with the result of that record's own check.
C18_InputOrderKept ==
    [][\A s \in Searches :
          front = "ui" /\ srch[s].outcome # "ok" /\ srch'[s].outcome = "ok"
          => /\ Len(results') = Len(srch'[s].items)
             /\ \A i \in DOMAIN results' :
                   /\ results'[i].key = srch'[s].items[i]
                   /\ results'[i].inGraph = srch'[s].flags[i]]_vars

\* a search whose second check completed before its first one, with different
\* results, has displayed its entries
C18_Witness ==
    \E s \in Searches :
        /\ front = "ui"
        /\ srch[s].outcome = "ok"
        /\ srch[s].order = <<2, 1>>
        /\ srch[s].flags[1] # srch[s].flags[2]
        /\ results = srch[s].entries

\* C19: a search with an empty or whitespace-only query is rejected before any
\* request is made: it issues no fetch, ever, and it ends at once with the
\* invalid-query notice.
C19_BlankQueryRejected ==
    /\ [](\A s \in Searches :
            srch[s].query \in {"absent", "blank"}
                => /\ srch[s].fetches = 0
                   /\ srch[s].pc = "done"
                   /\ srch[s].outcome = "invalid"
                   /\ srch[s].items = <<>>)
    /\ [][\A s \in Searches :
            srch[s].pc = "idle" /\ srch'[s].query \in {"absent", "blank"}
            => /\ front = "console"
                   => /\ Len(srch'[s].notices) = 1
                      /\ srch'[s].notices[1] \in
                             {<<"warning", "query">>, <<"warning", "usage">>}
               /\ front = "ui" => uiError' = "empty"]_vars

\* a front end has turned a whitespace-only query away with its notice
C19_Witness ==
    \E s \in Searches :
        /\ srch[s].query = "blank"
        /\ srch[s].pc = "done"
        /\ \/ front = "console" /\ srch[s].notices = <<<<"warning", "query">>>>
           \/ front = "ui" /\ uiError = "empty"

\* the error notices of a search
ErrorNotices(r) == {i \in DOMAIN r.notices : r.notices[i][1] = "error"}

\* C20: a search whose fetch could not connect and a search whose response was
\* not 2xx end in two different error outcomes; each is terminal: one fetch,
\* one error notice (the one of its kind), no results.
C20_FetchFailuresDistinct ==
    /\ [](\A s \in Searches : \A o \in {"connect", "status"} :
            srch[s].outcome = o
                => /\ srch[s].pc = "done"
                   /\ srch[s].fetches = 1
                   /\ srch[s].items = <<>> /\ srch[s].entries = <<>>
                   /\ front = "console"
                          => /\ Cardinality(ErrorNotices(srch[s])) = 1
                             /\ srch[s].notices = <<<<"info", "searching">>, <<"error", o>>>>)
    /\ [][\A s \in Searches : \A o \in {"connect", "status"} :
            front = "ui" /\ srch[s].outcome # o /\ srch'[s].outcome = o
            => uiError' = o /\ results' = results]_vars

\* one session has seen both failures: the store unreachable for one search,
\* an error status for the other
C20_Witness ==
    /\ front = "console"
    /\ \E s, t \in Searches :
          /\ srch[s].outcome = "connect"
          /\ srch[t].outcome = "status"
          /\ srch[s].notices[2] # srch[t].notices[2]

\* C21: a search whose response is an empty list ends in a valid non-error
\* outcome: "no results" is signalled as a warning, and no error notice is
\* shown and no error state is set.
C21_NoResultsIsNotAnError ==
    [][\A s \in Searches :
          srch[s].outcome # "noresults" /\ srch'[s].outcome = "noresults"
          => /\ srch'[s].pc = "done"
             /\ front = "console"
                    => /\ ErrorNotices(srch'[s]) = {}
                       /\ srch'[s].notices[Len(srch'[s].notices)] = <<"warning", "noresults">>
             /\ front = "ui" => uiError' = "none"]_vars

----------------------------------------------------------------------------
\* Claims C21 to C30

\* the positions of the requests named c among the host requests of invocation p
CallsOf(p, c) == {i \in DOMAIN inv[p].calls : inv[p].calls[i] = c}

Called == {p \in Invs : inv[p].pc # "idle"}

\* C23: in the auto-import build one run of displaySearchResults hands to
\* importZoteroItem exactly the first item, in result order, whose existence
\* check returned false, and checks or imports no item after it; when every
\* item is in the graph it imports nothing.
C23_ImportsFirstNewItemOnly ==
    front = "auto" =>
        /\ \A s \in Searches :
            LET r == srch[s] IN
            /\ Len(r.imported) <= 1
            /\ Len(r.entries) <= Len(r.items)
            /\ \A i \in DOMAIN r.entries : r.entries[i].key = r.items[i]
            /\ r.imported # <<>> =>
                  /\ Len(r.entries) = r.imported[1]
                  /\ r.entries[r.imported[1]].inGraph = "false"
                  /\ \A j \in 1..(r.imported[1] - 1) : r.entries[j].inGraph = "true"
                  /\ inv[r.importer].key = r.items[r.imported[1]]
                  /\ r.pc \in {"importing", "done"}
            /\ r.imported = <<>> => \A j \in DOMAIN r.entries : r.entries[j].inGraph = "true"
            /\ r.outcome = "alldup" => r.imported = <<>> /\ Len(r.entries) = Len(r.items)
            /\ r.outcome = "imported" => Len(r.imported) = 1
        /\ Cardinality(Called) = Cardinality({s \in Searches : srch[s].imported # <<>>})

\* a run over two items has found the first in the graph, imported the second
\* and returned
C23_Witness ==
    /\ front = "auto"
    /\ \E s \in Searches :
          /\ srch[s].outcome = "imported"
          /\ srch[s].items = <<1, 2>>
          /\ srch[s].imported = <<2>>
          /\ inv[srch[s].importer].outcome = "success"

\* C24: importByNumber(N) invokes the import for exactly the N-th item
\* (1-based) of the stored search results when 1 <= N <= length, and performs
\* no import and no host request when nothing is stored or N is out of range.
C24_ImportByNumber ==
    front = "console" =>
        \A p \in Invs :
            LET h == hi[p]
                inRange == h.number >= 1 /\ h.number <= Len(h.captured) IN
            /\ h.pc = "called" =>
                  /\ inRange
                  /\ inv[p].pc # "idle"
                  /\ inv[p].key = h.captured[h.number]
            /\ h.pc = "rejected" => ~inRange /\ inv[p] = IdleInv
            /\ h.pc = "idle" => inv[p] = IdleInv

\* importByNumber(2) has started the import of the second of two stored items
C24_Witness ==
    /\ front = "console"
    /\ \E p \in Invs :
          /\ hi[p].pc = "called"
          /\ hi[p].number = 2
          /\ hi[p].captured = <<1, 2>>
          /\ inv[p].key = 2
          /\ inv[p].calls # <<>>

\* the least element of a non-empty set of numbers
Least(S) == CHOOSE i \in S : \A j \in S : i <= j

\* the positions of s where a run of four characters has the form 19dd or 20dd
YearRuns(s) ==
    {i \in 1..Len(s) :
        /\ i + 3 <= Len(s)
        /\ <<s[i], s[i + 1]>> \in {<<"1", "9">>, <<"2", "0">>}
        /\ IsDigit(s[i + 2]) /\ IsDigit(s[i + 3])}

\* the run at position i is not adjacent to a letter, a digit or an underscore
Delimited(s, i) ==
    /\ i = 1 \/ ~IsWord(s[i - 1])
    /\ i + 4 > Len(s) \/ ~IsWord(s[i + 4])

\* extractYear has returned the year of the first of the runs R, or null when
\* the date is absent or R is empty
ReturnedFirstOf(R) ==
    IF ~call.arg.defined \/ R = {}
    THEN call.out = [kind |-> "null"]
    ELSE call.out = [kind |-> "number",
                     value |-> parseInt(SubSeq(call.arg.chars, Least(R), Least(R) + 3))]

\* the run at position i is a whole run of digits: no digit next to it
WholeRun(s, i) ==
    /\ i = 1 \/ ~IsDigit(s[i - 1])
    /\ i + 4 > Len(s) \/ ~IsDigit(s[i + 4])

Rendered(c) ==
    CASE c.name # "" -> <<c.name>>
      [] c.name = "" /\ c.firstName # "" /\ c.lastName # "" -> <<c.firstName, " ", c.lastName>>
      [] c.name = "" /\ c.firstName # "" /\ c.lastName = "" -> <<c.firstName>>
      [] c.name = "" /\ c.firstName = "" /\ c.lastName # "" -> <<c.lastName>>
      [] OTHER -> <<>>

\* the authors string the claim describes, built from the last creator back
RECURSIVE ExpectedAuthors(_)
ExpectedAuthors(cs) ==
    IF cs = <<>> THEN <<>>
    ELSE LET before == SubSeq(cs, 1, Len(cs) - 1)
             c == cs[Len(cs)] IN
         IF c.creatorType # "author" THEN ExpectedAuthors(before)
         ELSE IF \E i \in DOMAIN before : before[i].creatorType = "author"
              THEN ExpectedAuthors(before) \o <<", ">> \o Rendered(c)
              ELSE Rendered(c)

\* C26: the authors string is built from the creators whose role is author
\* only, each rendered as firstName + ' ' + lastName (or as the full name),
\* joined with ', ' in input order; with no creators or no authors it is the
\* empty string, and the call always returns a string.
C26_AuthorsString ==
    call.fn = "authors" /\ call.out.kind # "pending"
        => /\ call.out.kind = "string"
           /\ call.out.value = ExpectedAuthors(call.arg.list)
           /\ (\A i \in DOMAIN call.arg.list : call.arg.list[i].creatorType # "author")
                  => call.out.value = <<>>

\* the authors string of [author Ada Lovelace, editor Bob] is "Ada Lovelace"
C26_Witness ==
    /\ call.fn = "authors"
    /\ call.arg.list =
          << [creatorType |-> "author", firstName |-> "Ada", lastName |-> "Lovelace", name |-> ""],
             [creatorType |-> "editor", firstName |-> "", lastName |-> "", name |-> "Bob"] >>
    /\ call.out = [kind |-> "string", value |-> <<"Ada", " ", "Lovelace">>]

\* the greatest element of a non-empty set of numbers
Greatest(S) == CHOOSE i \in S : \A j \in S : i >= j

\* the markdown form of each piece; <br> and <p> become a line break when
\* `breaks` is set and stay as they are otherwise
PieceMarkdown(breaks) ==
    [text   |-> <<"x">>,
     blank  |-> <<" ">>,
     newline |-> <<"\n">>,
     i      |-> <<"*", "x", "*">>,
     em     |-> <<"*", "x", "*">>,
     b      |-> <<"**", "x", "**">>,
     strong |-> <<"**", "x", "**">>,
     sup    |-> <<"^", "x", "^">>,
     sub    |-> <<"~", "x", "~">>,
     a      |-> <<"[", "x", "](", "u", ")">>,
     u      |-> <<"<u>">>,
     br     |-> IF breaks THEN <<"\n">> ELSE <<"<br>">>,
     p      |-> IF breaks THEN <<"\n">> ELSE <<"<p>">>,
     open   |-> <<"<i>">>,
     close  |-> <<"</i>">>]

\* s without the blanks and line breaks at its two ends
Stripped(s) ==
    LET ink == {n \in DOMAIN s : s[n] \notin {" ", "\n"}} IN
    IF ink = {} THEN <<>> ELSE SubSeq(s, Least(ink), Greatest(ink))

\* an opening <i> alone is followed on its line by a </i>: the abstract holds
\* nested or crossed tags, which the conversion does not promise to handle
Crossed(ps) ==
    \E m, n \in DOMAIN ps :
        /\ m < n
        /\ ps[m] = "open"
        /\ ps[n] \in {"i", "close"}
        /\ \A l \in (m + 1)..(n - 1) : ps[l] # "newline"

\* htmlToMarkdown has returned the pieces in their markdown form
ReturnedMarkdown(breaks) ==
    call.out.value =
        Stripped(Concat([n \in DOMAIN call.pieces |-> PieceMarkdown(breaks)[call.pieces[n]]]))

\* C27 as stated: htmlToMarkdown replaces each well-formed italic, bold,
\* superscript, subscript and hyperlink pair by its markdown form and leaves
\* every tag outside that set, <br> and <p> included, unchanged.
C27_OnlyInlineTagsReplaced ==
    call.fn = "htmlToMarkdown" /\ call.out.kind # "pending" /\ ~Crossed(call.pieces)
        => ReturnedMarkdown(FALSE)

\* C27 amended: htmlToMarkdown replaces each well-formed italic, bold,
\* superscript, subscript and hyperlink pair by its markdown form, replaces
\* <br> and <p> by a line break, strips the blanks and line breaks at the two
\* ends, and leaves every other tag, and an opening or closing tag without
\* its partner, unchanged.
C27_InlineTagsAndBreaksReplaced ==
    call.fn = "htmlToMarkdown" /\ call.out.kind # "pending" /\ ~Crossed(call.pieces)
        => ReturnedMarkdown(TRUE)

\* '<b>x</b>x<i>x</i>' has given '**x**x*x*'
C27_Witness ==
    /\ call.fn = "htmlToMarkdown"
    /\ call.arg = <<"<b>", "x", "</b>", "x", "<i>", "x", "</i>">>
    /\ call.out = [kind |-> "string", value |-> <<"**", "x", "**", "x", "*", "x", "*">>]

\* C28: an importZoteroItem call that finds its record id in importingItems is
\* a no-op: it makes no existence check and no createPage, shows no notice,
\* and leaves importingItems as it is (the lock of the in-flight call stays).
C28_GuardedCallIsNoOp ==
    /\ [](\A p \in Invs :
            inv[p].outcome = "guarded"
                => /\ inv[p].pc = "done"
                   /\ inv[p].calls = <<>>
                   /\ inv[p].notices = <<>>
                   /\ inv[p].exists = "none"
                   /\ ~inv[p].acquired)
    /\ [][\A p \in Invs :
            inv[p].outcome # "guarded" /\ inv'[p].outcome = "guarded"
            => /\ inv'[p].key \in importingItems
               /\ importingItems' = importingItems
               /\ pages' = pages
               /\ \A q \in Invs \ {p} : inv'[q] = inv[q]]_vars

\* a call was turned away at the guard and the call in flight still holds the
\* lock of the record
C28_Witness ==
    \E p, q \in Invs :
        /\ inv[q].outcome = "guarded"
        /\ inv[p].key = inv[q].key
        /\ p \in Holding(inv[p].key)
        /\ inv[p].key \in importingItems

\* C29: the result set is refreshed for the imported record only after a
\* successful import: whenever handleImport has set the entry of its record to
\* true, a page for that record exists; the flag is not set after createPage
\* returned null or threw.
C29_FlagOnlyAfterSuccess ==
    front = "ui" =>
        \A p \in Invs :
            /\ hi[p].pc = "done"
            /\ \E i \in DOMAIN hi[p].flags :
                  hi[p].captured[i].key = hi[p].key /\ hi[p].flags[i] = "true"
            => /\ pages[hi[p].key] > 0
               /\ inv[p].error \notin {"null", "create"}

----------------------------------------------------------------------------
\* Claims C31 to C37

\* C31: every createPage request carries the record id as the property
\* zoteroKey, the property the existence check queries; so when the property
\* query of an existence check returns after createPage has given a page for
\* the same record, the check returns true.
C31_CreatedPageIsFound ==
    /\ [](\A p \in Invs :
            (\E i \in DOMAIN inv[p].calls : inv[p].calls[i] = "createPage")
            => /\ PropertyQuery(inv[p].key).property \in DOMAIN PageProperties(inv[p].key)
               /\ PageProperties(inv[p].key)[PropertyQuery(inv[p].key).property] = inv[p].key)
    /\ [][\A p \in Invs :
            /\ inv[p].pc = "query"
            /\ inv'[p].pc # "query"
            /\ ~inv'[p].qfailed
            /\ (\E q \in Invs : inv[q].page /\ inv[q].key = inv[p].key)
            => inv'[p].exists = "true"]_vars

\* createPage gave a page for a record, and an existence check of the same
\* record, called after that import had returned, got the answer of its
\* property query
C31_Witness ==
    \E p, q \in Invs :
        /\ p < q
        /\ inv[p].page
        /\ inv[p].outcome = "success"
        /\ ~inv[p].afterSuccess
        /\ inv[p].exists = "false"
        /\ inv[q].key = inv[p].key
        /\ inv[q].afterSuccess
        /\ ~inv[q].qfailed
        /\ inv[q].exists = "true"

\* the positions of the insertBatchBlock requests among the host requests of
\* invocation p
AppendRequests(p) ==
    {i \in DOMAIN inv[p].calls : inv[p].calls[i] = "insertBatchBlock"}

\* C32: insertBatchBlock is requested at most once per invocation, only
\* right after createPage returned a page handle and only for a record whose
\* abstract is non-empty; an import of a record without abstract requests no
\* append.
C32_AppendOnceAfterPage ==
    \A p \in Invs :
        /\ Cardinality(AppendRequests(p)) <= 1
        /\ \A i \in AppendRequests(p) :
              /\ i > 1
              /\ inv[p].calls[i - 1] = "createPage"
              /\ inv[p].page
              /\ inv[p].error \notin {"null", "create", "check"}
              /\ abstractNote(inv[p].key)
        /\ inv[p].pc # "idle" /\ ~abstractNote(inv[p].key) => AppendRequests(p) = {}
        /\ inv[p].pc = "append" => AppendRequests(p) # {}

\* one import of the record with an abstract has requested the append and
\* returned, and an import of the record without abstract has created its
\* page and returned with no append request
C32_Witness ==
    \E p, q \in Invs :
        /\ abstractNote(inv[p].key)
        /\ inv[p].outcome = "success"
        /\ Cardinality(AppendRequests(p)) = 1
        /\ inv[q].pc = "done"
        /\ inv[q].key \in Keys
        /\ ~abstractNote(inv[q].key)
        /\ inv[q].page
        /\ inv[q].outcome = "success"
        /\ AppendRequests(q) = {}

\* invocation p is inside insertLinkToPage
Linking(p) == inv[p].pc \in {"link", "update"}

\* invocation p has called insertLinkToPage
CalledLink(p) == \E i \in DOMAIN inv[p].calls : inv[p].calls[i] = "insertLink"

\* C33: in the link-inserting variant insertLinkToPage runs only after the
\* page was created and the success notice shown, never on the skipped or
\* failed paths; a failure inside the link insertion is swallowed without a
\* failure notice; and the lock of the record is held until the link
\* insertion has finished.
C33_LinkAfterSuccessUnderLock ==
    \A p \in Invs :
        /\ CalledLink(p) <=> inv[p].link # "none" \/ Linking(p)
        /\ CalledLink(p) =>
              /\ variant = "linking"
              /\ inv[p].calls[Len(inv[p].calls)] = "insertLink"
              /\ inv[p].page
              /\ inv[p].exists = "false"
              /\ inv[p].error = "none"
              /\ inv[p].outcome = "success"
              /\ inv[p].notices[Len(inv[p].notices)] = SuccessNotice
              /\ \A i \in DOMAIN inv[p].notices : inv[p].notices[i] # FailureNotice
        /\ variant = "linking" /\ inv[p].outcome = "success" => CalledLink(p)
        /\ Linking(p) =>
              /\ inv[p].key \in importingItems
              /\ Holding(inv[p].key) = {p}
        /\ inv[p].link # "none" => inv[p].pc = "done" /\ p \notin Holding(inv[p].key)

\* a link insertion failed and was swallowed, and a link insertion that went
\* through the block update succeeded
C33_Witness ==
    /\ variant = "linking"
    /\ \E p, q \in Invs :
          /\ inv[p].link = "failed"
          /\ inv[p].pc = "done"
          /\ inv[p].outcome = "success"
          /\ inv[q].link = "inserted"
          /\ inv[q].pc = "done"
          /\ inv[q].key \notin importingItems

\* the searches that have been submitted, and the one submitted last
Submitted == {s \in Searches : srch[s].pc # "idle"}

LastSubmitted == CHOOSE s \in Submitted : \A t \in Submitted : t <= s

\* C34: when handleSearch invocations overlap, the result set displayed in
\* the end is that of the query submitted last: once every submitted search
\* has finished and the last one found results, the displayed entries are
\* its entries, whichever response arrived last.
C34_LatestQueryWins ==
    /\ front = "ui"
    /\ Submitted # {}
    /\ \A s \in Submitted : srch[s].pc = "done"
    /\ srch[LastSubmitted].outcome = "ok"
    /\ \A p \in Invs : hi[p].pc = "idle"
    => results = srch[LastSubmitted].entries

\* the records of a list of displayed entries, in their order
RecordsOf(entries) == [j \in DOMAIN entries |-> entries[j].key]

\* C35: a handleImport that started before a newer search completed never
\* replaces that search's result set: the step in which handleImport ends
\* (its setResults) leaves the displayed records as the searches have set
\* them, it never puts back the entries captured when the import started.
C35_ImportKeepsNewerResults ==
    [][\A p \in Invs :
          /\ front = "ui"
          /\ hi[p].pc \in {"import", "recheck"}
          /\ hi'[p].pc = "done"
          => RecordsOf(results') = RecordsOf(results)]_vars

\* C36: in the SearchUI that tracks the importing item, while an import
\* started through handleImport is in flight its record stays marked as
\* importing: the importing state is the record's key, neither null nor the
\* key of another record, until onImport has returned.
C36_ImportingMarkKept ==
    TracksImporting =>
        \A p \in Invs :
            hi[p].pc = "import" /\ inv[p].pc # "done" => importing = hi[p].key

\* C37: for every record, with or without a title, the page name the
\* title-based existence check looks up is the name passed to createPage
\* with the trailing ' #zot' removed; a record without title gets the
\* placeholder 'Zotero Item <key>' in both.
C37_LookupNameIsCreatedName ==
    call.fn = "pageName" /\ call.out.kind = "names" =>
        /\ call.out.lookup = RemoveZotTag(call.out.created)
        /\ call.out.created = call.out.lookup \o ZotTag
        /\ ~call.item.data.title.defined \/ call.item.data.title.chars = <<>>
              => call.out.lookup = Placeholder(call.item.key)

\* the names of a record without title were computed in the build with the
\* title fallback
C37_Witness ==
    /\ call.fn = "pageName"
    /\ call.build = "console"
    /\ ~call.item.data.title.defined
    /\ call.out.kind = "names"
    /\ call.out.lookup = <<"Zotero Item ", "2">>
    /\ call.out.created = <<"Zotero Item ", "2", " ", "#", "z", "o", "t">>

====
